---- MODULE Spec2Model ----
(***************************************************************************)
(* A model of src/src/binary_merkle_tree.rs: the BLAKE3 chunk accumulator, *)
(* the reference streaming hasher and the heap-indexed BinaryMerkleTree    *)
(* with its construction, single-leaf update and sorted bulk update.       *)
(*                                                                         *)
(* Representation.                                                         *)
(*  - A u32 word is kept as the 32-bit signed integer with the same bit    *)
(*    pattern (TLC integers are 32-bit signed): a word w >= 2^31 is kept   *)
(*    as w - 2^32.                                                         *)
(*  - compress is an injective symbolic constructor: its 16-word result    *)
(*    is the tuple of its five arguments.  The first eight words of a      *)
(*    compression result c are the one-element tuple <<c>>; such a         *)
(*    chaining value occupies one position where the code has eight        *)
(*    words, so a parent's block_words is <<left_cv, right_cv>>.           *)
(*  - Vec<Output> is a function on 0 .. len-1.                             *)
(***************************************************************************)
EXTENDS Integers, Sequences, FiniteSets, TLC

(***************************************************************************)
(* Program constants                                                       *)
(***************************************************************************)
OUT_LEN == 32
BLOCK_LEN == 64
CHUNK_LEN == 1024

CHUNK_START == 1
CHUNK_END == 2
PARENT == 4
ROOT == 8

IV == <<1779033703, -1150833019, 1013904242, -1521486534,
        1359893119, -1694144372, 528734635, 1541459225>>
FLAGS == 0

(***************************************************************************)
(* Integer helpers for the code's operators |, ^, min, next_power_of_two   *)
(***************************************************************************)
RECURSIVE BitOr(_, _)
BitOr(a, b) ==
    IF a = 0 THEN b
    ELSE IF b = 0 THEN a
    ELSE (IF a % 2 = 1 \/ b % 2 = 1 THEN 1 ELSE 0) + 2 * BitOr(a \div 2, b \div 2)

RECURSIVE BitAnd(_, _)
BitAnd(a, b) ==
    IF a = 0 \/ b = 0 THEN 0
    ELSE (IF a % 2 = 1 /\ b % 2 = 1 THEN 1 ELSE 0) + 2 * BitAnd(a \div 2, b \div 2)

RECURSIVE BitXor(_, _)
BitXor(a, b) ==
    IF a = 0 THEN b
    ELSE IF b = 0 THEN a
    ELSE (IF (a % 2) # (b % 2) THEN 1 ELSE 0) + 2 * BitXor(a \div 2, b \div 2)

min(a, b) == IF a <= b THEN a ELSE b

RECURSIVE PowerOfTwoFrom(_, _)
PowerOfTwoFrom(p, n) == IF p >= n THEN p ELSE PowerOfTwoFrom(2 * p, n)

\* The smallest power of two strictly above n.
next_power_of_two_above(n) == PowerOfTwoFrom(1, n + 1)

next_power_of_two(n) == PowerOfTwoFrom(1, n)

(***************************************************************************)
(* Compression core and Output                                             *)
(***************************************************************************)
compress(chaining_value, block_words, counter, block_len, flags) ==
    <<chaining_value, block_words, counter, block_len, flags>>

first_8_words(compression_output) == <<compression_output>>

\* Output::chaining_value
chaining_value(self) ==
    first_8_words(compress(self.input_chaining_value, self.block_words,
                           self.counter, self.block_len, self.flags))

\* Output::root_output_bytes over a destination of OUT_LEN bytes: one output
\* block, output_block_counter = 0, of which the zip with chunks_mut(4) keeps
\* OUT_LEN / 4 = 8 words, each serialised little-endian.
root_output_bytes(self) ==
    [le_bytes_of |->
        first_8_words(compress(self.input_chaining_value, self.block_words,
                               0, self.block_len, BitOr(self.flags, ROOT)))]

parent_output(left_child_cv, right_child_cv, key_words, flags) ==
    [input_chaining_value |-> key_words,
     block_words          |-> <<left_child_cv, right_child_cv>>,
     counter              |-> 0,
     block_len            |-> BLOCK_LEN,
     flags                |-> BitOr(PARENT, flags)]

parent_cv(left_child_cv, right_child_cv, key_words, flags) ==
    chaining_value(parent_output(left_child_cv, right_child_cv, key_words, flags))

\* u32::from_le_bytes: b0 + 2^8 b1 + 2^16 b2 + 2^24 b3, as a 32-bit pattern.
from_le_bytes(b0, b1, b2, b3) ==
    b0 + 256 * b1 + 65536 * b2 + 16777216 * (IF b3 >= 128 THEN b3 - 256 ELSE b3)

words_from_little_endian_bytes(bytes) ==
    [w \in 1 .. (Len(bytes) \div 4) |->
        from_le_bytes(bytes[4 * w - 3], bytes[4 * w - 2], bytes[4 * w - 1], bytes[4 * w])]

(***************************************************************************)
(* ChunkState                                                              *)
(***************************************************************************)
ZeroBlock == [j \in 1 .. BLOCK_LEN |-> 0]

ChunkState_new(key_words, chunk_counter, flags) ==
    [chaining_value    |-> key_words,
     chunk_counter     |-> chunk_counter,
     block             |-> ZeroBlock,
     block_len         |-> 0,
     blocks_compressed |-> 0,
     flags             |-> flags]

ChunkState_len(self) == BLOCK_LEN * self.blocks_compressed + self.block_len

\* A start flag given to every block of the chunk.
start_flag_every_block(self) == CHUNK_START

start_flag(self) == IF self.blocks_compressed = 0 THEN CHUNK_START ELSE 0

\* The body of update's `if self.block_len == BLOCK_LEN`.
ChunkState_compress_block(self) ==
    [self EXCEPT
        !.chaining_value =
            first_8_words(compress(self.chaining_value,
                                   words_from_little_endian_bytes(self.block),
                                   self.chunk_counter, BLOCK_LEN,
                                   BitOr(self.flags, start_flag(self)))),
        !.blocks_compressed = @ + 1,
        !.block = ZeroBlock,
        !.block_len = 0]

RECURSIVE ChunkState_update(_, _)
ChunkState_update(self, input) ==
    IF Len(input) = 0 THEN self
    ELSE LET s1   == IF self.block_len = BLOCK_LEN
                     THEN ChunkState_compress_block(self) ELSE self
             want == BLOCK_LEN - s1.block_len
             take == min(want, Len(input))
             s2   == [s1 EXCEPT
                        !.block = [j \in 1 .. BLOCK_LEN |->
                                     IF j > s1.block_len /\ j <= s1.block_len + take
                                     THEN input[j - s1.block_len] ELSE s1.block[j]],
                        !.block_len = @ + take]
         IN  ChunkState_update(s2, SubSeq(input, take + 1, Len(input)))

ChunkState_output(self) ==
    [input_chaining_value |-> self.chaining_value,
     block_words          |-> words_from_little_endian_bytes(self.block),
     counter              |-> self.chunk_counter,
     block_len            |-> self.block_len,
     flags                |-> BitOr(BitOr(self.flags, start_flag(self)), CHUNK_END)]

(***************************************************************************)
(* Blake3Hasher, the reference streaming hasher.  cv_stack holds the live  *)
(* entries cv_stack[0 .. cv_stack_len-1] of the code's 54-slot array.      *)
(***************************************************************************)
Blake3Hasher_new ==
    [chunk_state |-> ChunkState_new(IV, 0, 0),
     key_words   |-> IV,
     cv_stack    |-> <<>>,
     flags       |-> 0]

RECURSIVE add_chunk_chaining_value(_, _, _)
add_chunk_chaining_value(self, new_cv, total_chunks) ==
    IF total_chunks % 2 = 0
    THEN LET top == self.cv_stack[Len(self.cv_stack)]
             popped == [self EXCEPT !.cv_stack = SubSeq(@, 1, Len(@) - 1)]
         IN  add_chunk_chaining_value(
                 popped,
                 parent_cv(top, new_cv, self.key_words, self.flags),
                 total_chunks \div 2)
    ELSE [self EXCEPT !.cv_stack = Append(@, new_cv)]

RECURSIVE Blake3Hasher_update(_, _)
Blake3Hasher_update(self, input) ==
    IF Len(input) = 0 THEN self
    ELSE LET s1 == IF ChunkState_len(self.chunk_state) = CHUNK_LEN
                   THEN LET chunk_cv == chaining_value(ChunkState_output(self.chunk_state))
                            total_chunks == self.chunk_state.chunk_counter + 1
                            pushed == add_chunk_chaining_value(self, chunk_cv, total_chunks)
                        IN  [pushed EXCEPT !.chunk_state =
                                ChunkState_new(self.key_words, total_chunks, self.flags)]
                   ELSE self
             want == CHUNK_LEN - ChunkState_len(s1.chunk_state)
             take == min(want, Len(input))
         IN  Blake3Hasher_update(
                 [s1 EXCEPT !.chunk_state = ChunkState_update(@, SubSeq(input, 1, take))],
                 SubSeq(input, take + 1, Len(input)))

RECURSIVE FinalizeFold(_, _, _)
FinalizeFold(self, output, parent_nodes_remaining) ==
    IF parent_nodes_remaining > 0
    THEN FinalizeFold(self,
                      parent_output(self.cv_stack[parent_nodes_remaining],
                                    chaining_value(output),
                                    self.key_words, self.flags),
                      parent_nodes_remaining - 1)
    ELSE output

\* finalize over a destination of OUT_LEN bytes
Blake3Hasher_finalize(self) ==
    root_output_bytes(FinalizeFold(self, ChunkState_output(self.chunk_state),
                                   Len(self.cv_stack)))

(***************************************************************************)
(* BinaryMerkleTree.  `self` is the record of the struct's fields; the     *)
(* operations return the fields they change.                               *)
(***************************************************************************)
ZeroWords == [w \in 1 .. 16 |-> 0]

\* The element new_from_leaves fills the node vector with.
PlaceholderNode(key_words, flags) ==
    [input_chaining_value |-> key_words,
     block_words          |-> ZeroWords,
     counter              |-> 0,
     block_len            |-> 64,
     flags                |-> flags]

get_sibling_index(index) == BitXor(index, 1)

\* A test that takes the odd indices for the left children.
is_left_odd(index) == index % 2 = 1

is_left(index) == index % 2 = 0

\* A parent index rounded up: right for the even slots, one too far for the odd.
get_parent_index_rounded_up(index) == (index + 1) \div 2

get_parent_index(index) == index \div 2

\* node_pair[b as usize] with node_pair = [current_index, sibling_index]
get_left_and_right_node_indices_from_index(current_index) ==
    LET sibling_index == get_sibling_index(current_index)
        node_pair == <<current_index, sibling_index>>
        left_node_index  == node_pair[IF is_left(sibling_index) THEN 2 ELSE 1]
        right_node_index == node_pair[IF is_left(current_index) THEN 2 ELSE 1]
    IN  <<left_node_index, right_node_index>>

RECURSIVE ShiftRight(_, _)
ShiftRight(x, k) == IF k = 0 THEN x ELSE ShiftRight(x \div 2, k - 1)

\* The level-search loop of get_tree_indices for current_index < leaf_start_index.
RECURSIVE LevelSearch(_, _, _, _)
LevelSearch(self, current_index, level, nodes_in_level) ==
    IF nodes_in_level > 1
    THEN IF current_index >= ShiftRight(self.leaf_start_index, level)
         THEN level
         ELSE LevelSearch(self, current_index, level + 1, (nodes_in_level + 1) \div 2)
    ELSE level

\* A level computation that takes every node for a leaf.
current_level_always_leaf(self, current_index) == 0

current_level_of(self, current_index) ==
    IF current_index >= self.leaf_start_index
    THEN 0
    ELSE LevelSearch(self, current_index, 0, self.actual_leaves)

RECURSIVE NodesAfterLevels(_, _)
NodesAfterLevels(nodes, levels) ==
    IF levels = 0 THEN nodes ELSE NodesAfterLevels((nodes + 1) \div 2, levels - 1)

\* A helper that reports a right sibling for every node.
get_tree_indices_always_paired(self, current_index) ==
    LET lr == get_left_and_right_node_indices_from_index(current_index)
    IN  [left_index        |-> lr[1],
         right_index       |-> lr[2],
         parent_index      |-> get_parent_index(current_index),
         has_right_sibling |-> TRUE]

get_tree_indices(self, current_index) ==
    LET current_level  == current_level_of(self, current_index)
        level_start    == ShiftRight(self.leaf_start_index, current_level)
        nodes_in_level == IF current_level = 0 THEN self.actual_leaves
                          ELSE NodesAfterLevels(self.actual_leaves, current_level)
        lr             == get_left_and_right_node_indices_from_index(current_index)
        parent_index   == get_parent_index(current_index)
    IN  [left_index        |-> lr[1],
         right_index       |-> lr[2],
         parent_index      |-> parent_index,
         has_right_sibling |-> lr[2] < level_start + nodes_in_level]

\* A loop iteration that promotes the left node whether or not it has a right
\* sibling.
BuildParentAlwaysPromotes(self, tree, current_level_start, nodes_at_current_level, i) ==
    [tree EXCEPT ![current_level_start \div 2 + i] = tree[current_level_start + 2 * i]]

\* A loop iteration that combines the pair whether or not the right node exists.
BuildParentAlwaysCombines(self, tree, current_level_start, nodes_at_current_level, i) ==
    LET left_index == current_level_start + 2 * i
    IN  [tree EXCEPT ![current_level_start \div 2 + i] =
            parent_output(chaining_value(tree[left_index]),
                          chaining_value(tree[left_index + 1]),
                          self.key_words, self.flags)]

\* One iteration of the inner for loop of create_tree_from_leaves.
BuildParent(self, tree, current_level_start, nodes_at_current_level, i) ==
    LET parent_level_start == current_level_start \div 2
        left_index   == current_level_start + 2 * i
        right_index  == left_index + 1
        parent_index == parent_level_start + i
    IN  IF 2 * i + 1 >= nodes_at_current_level
        THEN [tree EXCEPT ![parent_index] = tree[left_index]]
        ELSE [tree EXCEPT ![parent_index] =
                 parent_output(chaining_value(tree[left_index]),
                               chaining_value(tree[right_index]),
                               self.key_words, self.flags)]

RECURSIVE BuildLevel(_, _, _, _, _)
BuildLevel(self, tree, current_level_start, nodes_at_current_level, i) ==
    IF i < (nodes_at_current_level + 1) \div 2
    THEN BuildLevel(self,
                    BuildParent(self, tree, current_level_start, nodes_at_current_level, i),
                    current_level_start, nodes_at_current_level, i + 1)
    ELSE tree

RECURSIVE BuildLevels(_, _, _, _)
BuildLevels(self, tree, current_level_start, nodes_at_current_level) ==
    IF current_level_start > 1
    THEN BuildLevels(self,
                     BuildLevel(self, tree, current_level_start, nodes_at_current_level, 0),
                     current_level_start \div 2,
                     (nodes_at_current_level + 1) \div 2)
    ELSE tree

\* Returns the node vector after construction.
create_tree_from_leaves(self, leaves) ==
    LET copied == [s \in DOMAIN self.tree |->
                      IF s >= self.leaf_start_index /\ s < self.leaf_start_index + Len(leaves)
                      THEN leaves[s - self.leaf_start_index + 1]
                      ELSE self.tree[s]]
    IN  IF self.actual_leaves = 1
        THEN [copied EXCEPT ![1] = copied[self.leaf_start_index]]
        ELSE BuildLevels(self, copied, self.leaf_start_index, self.actual_leaves)

new_from_leaves(leaves, key_words, flags) ==
    LET actual_leaves    == Len(leaves)
        number_of_leaves == next_power_of_two(Len(leaves))
        nodes == [s \in 0 .. 2 * number_of_leaves - 1 |-> PlaceholderNode(key_words, flags)]
        binary_tree == [tree             |-> nodes,
                        actual_leaves    |-> actual_leaves,
                        number_of_leaves |-> number_of_leaves,
                        leaf_start_index |-> number_of_leaves,
                        key_words        |-> key_words,
                        flags            |-> flags]
    IN  [binary_tree EXCEPT !.tree = create_tree_from_leaves(binary_tree, leaves)]

\* A root() that returns slot 1 as stored.
root_as_stored(self) == self.tree[1]

\* BinaryMerkleTree::root
root(self) == [self.tree[1] EXCEPT !.flags = BitOr(@, ROOT)]

num_leaves(self) == self.number_of_leaves

\* A bounds check that lets the first index past the leaves through.
insert_leaf_bounds_off_by_one(self, leaf_index) == leaf_index > self.actual_leaves

\* The bounds check that opens insert_leaf.
insert_leaf_out_of_bounds(self, leaf_index) == leaf_index >= self.actual_leaves

\* An iteration that wraps a lone left node in a parent node instead of
\* promoting it.
InsertStepAlwaysCombines(self, tree, current_index) ==
    LET ix == get_tree_indices(self, current_index)
    IN  [panicked     |-> FALSE,
         tree         |-> [tree EXCEPT ![ix.parent_index] =
                              parent_output(chaining_value(tree[ix.left_index]),
                                            chaining_value(tree[ix.right_index]),
                                            self.key_words, self.flags)],
         reads        |-> {ix.left_index, ix.right_index},
         parent_index |-> ix.parent_index]

\* One iteration of the `while nodes_in_this_level > 1` loop of insert_leaf:
\* the slots whose Output it reads, the parent slot it writes and the node
\* vector it leaves.  Vec indexing panics on a slot outside the vector.
InsertStep(self, tree, current_index) ==
    LET ix    == get_tree_indices(self, current_index)
        reads == IF ix.has_right_sibling
                 THEN {ix.left_index, ix.right_index}
                 ELSE {ix.left_index}
    IN  IF ~((reads \cup {ix.parent_index}) \subseteq DOMAIN tree)
        THEN [panicked |-> TRUE, tree |-> tree, reads |-> reads,
              parent_index |-> ix.parent_index]
        ELSE [panicked     |-> FALSE,
              tree         |-> [tree EXCEPT ![ix.parent_index] =
                                   IF ix.has_right_sibling
                                   THEN parent_output(
                                            chaining_value(tree[ix.left_index]),
                                            chaining_value(tree[ix.right_index]),
                                            self.key_words, self.flags)
                                   ELSE tree[ix.left_index]],
              reads        |-> reads,
              parent_index |-> ix.parent_index]

\* The `while nodes_in_this_level > 1` loop of insert_leaf.
RECURSIVE InsertWalk(_, _, _, _)
InsertWalk(self, tree, nodes_in_this_level, current_index) ==
    IF nodes_in_this_level > 1
    THEN LET nodes_parent_level == (nodes_in_this_level + 1) \div 2
             step == InsertStep(self, tree, current_index)
         IN  IF step.panicked
             THEN [panicked |-> TRUE, tree |-> tree]
             ELSE InsertWalk(self, step.tree, nodes_parent_level, step.parent_index)
    ELSE [panicked |-> FALSE, tree |-> tree]

\* An insert_leaf whose loop tests its condition after the body: one iteration
\* runs even when the leaf level holds a single node.
insert_leaf_walks_first(self, leaf_index, leaf_output) ==
    IF insert_leaf_out_of_bounds(self, leaf_index)
    THEN [panicked |-> TRUE, tree |-> self.tree]
    ELSE LET real_leaf_index == leaf_index + self.leaf_start_index
             step == InsertStep(self,
                                [self.tree EXCEPT ![real_leaf_index] = leaf_output],
                                real_leaf_index)
         IN  IF step.panicked
             THEN [panicked |-> TRUE, tree |-> self.tree]
             ELSE InsertWalk(self, step.tree, (self.actual_leaves + 1) \div 2,
                             step.parent_index)

\* An insert_leaf that writes the leaf and leaves its ancestors as they were.
insert_leaf_without_walk(self, leaf_index, leaf_output) ==
    IF insert_leaf_out_of_bounds(self, leaf_index)
    THEN [panicked |-> TRUE, tree |-> self.tree]
    ELSE [panicked |-> FALSE,
          tree |-> [self.tree EXCEPT ![leaf_index + self.leaf_start_index] = leaf_output]]

\* Returns [panicked, tree]: whether the call panicked and the node vector it
\* leaves (at the panic, when it panics).
insert_leaf(self, leaf_index, leaf_output) ==
    IF insert_leaf_out_of_bounds(self, leaf_index)
    THEN [panicked |-> TRUE, tree |-> self.tree]
    ELSE LET real_leaf_index == leaf_index + self.leaf_start_index
         IN  IF real_leaf_index \notin DOMAIN self.tree
             THEN [panicked |-> TRUE, tree |-> self.tree]
             ELSE InsertWalk(self,
                             [self.tree EXCEPT ![real_leaf_index] = leaf_output],
                             self.actual_leaves, real_leaf_index)

\* The in-line sort checker of bulk_insert_leaves.  With an empty slice
\* `leaf_indices.len() - 1` is 0usize - 1: a build with overflow checks panics
\* there; a build without them wraps to usize::MAX and the closure's first call
\* indexes leaf_indices[0] of an empty slice, which panics too.
is_sorted_panics(leaf_indices) == Len(leaf_indices) = 0

\* A sort checker that accepts equal neighbours.
is_sorted_or_equal(leaf_indices) ==
    \A i \in 0 .. Len(leaf_indices) - 2 : leaf_indices[i + 1] <= leaf_indices[i + 2]

is_sorted(leaf_indices) ==
    \A i \in 0 .. Len(leaf_indices) - 2 : leaf_indices[i + 1] < leaf_indices[i + 2]

\* `for (leaf_index, updated_leaf_hash) in leaf_indices.iter().zip(leaf_hashes_iter)`
\* from its k-th pair on; Vec indexing panics on a slot outside the vector.
RECURSIVE BulkWriteLeaves(_, _, _, _)
BulkWriteLeaves(tree, leaf_indices, leaf_hashes, k) ==
    IF k > min(Len(leaf_indices), Len(leaf_hashes))
    THEN [panicked |-> FALSE, tree |-> tree]
    ELSE IF leaf_indices[k] \notin DOMAIN tree
         THEN [panicked |-> TRUE, tree |-> tree]
         ELSE BulkWriteLeaves([tree EXCEPT ![leaf_indices[k]] = leaf_hashes[k]],
                              leaf_indices, leaf_hashes, k + 1)

\* A coalescing step that never drops the sibling.
BulkCoalesceNever(rest, sibling_index) == rest

\* A coalescing step that drops the next queue entry whatever it is.
BulkCoalesceAlwaysPops(rest, sibling_index) ==
    IF Len(rest) > 0 THEN Tail(rest) ELSE rest

\* `if next_index == sibling_index { update_queue.pop_front(); }` on the queue
\* left after current_index was popped.
BulkCoalesce(rest, sibling_index) ==
    IF Len(rest) > 0 /\ Head(rest) = sibling_index THEN Tail(rest) ELSE rest

\* An iteration that pushes the parent slot at the front of the queue.
BulkStepPushesFront(self, tree, update_queue) ==
    LET current_index == Head(update_queue) IN
    IF current_index = 1
    THEN [panicked |-> FALSE, exit |-> TRUE, tree |-> tree,
          update_queue |-> Tail(update_queue), reads |-> {}, written |-> {}]
    ELSE LET rest == BulkCoalesce(Tail(update_queue),
                                  get_sibling_index(current_index))
             step == InsertStep(self, tree, current_index)
         IN  [panicked     |-> step.panicked,
              exit         |-> step.panicked,
              tree         |-> step.tree,
              update_queue |-> <<step.parent_index>> \o rest,
              reads        |-> step.reads,
              written      |-> IF step.panicked THEN {} ELSE {step.parent_index}]

\* An iteration that pushes the parent slot twice.
BulkStepPushesTwice(self, tree, update_queue) ==
    LET current_index == Head(update_queue) IN
    IF current_index = 1
    THEN [panicked |-> FALSE, exit |-> TRUE, tree |-> tree,
          update_queue |-> Tail(update_queue), reads |-> {}, written |-> {}]
    ELSE LET rest == BulkCoalesce(Tail(update_queue),
                                  get_sibling_index(current_index))
             step == InsertStep(self, tree, current_index)
         IN  [panicked     |-> step.panicked,
              exit         |-> step.panicked,
              tree         |-> step.tree,
              update_queue |-> Append(Append(rest, step.parent_index),
                                      step.parent_index),
              reads        |-> step.reads,
              written      |-> IF step.panicked THEN {} ELSE {step.parent_index}]

\* One iteration of the `while let Some(current_index) =
\* update_queue.pop_front()` loop on a non-empty queue: whether it breaks at
\* the root, the slots whose Output it reads, the slots it writes, and the
\* node vector and queue it leaves.
BulkStep(self, tree, update_queue) ==
    LET current_index == Head(update_queue) IN
    IF current_index = 1
    THEN [panicked |-> FALSE, exit |-> TRUE, tree |-> tree,
          update_queue |-> Tail(update_queue), reads |-> {}, written |-> {}]
    ELSE LET sibling_index == get_sibling_index(current_index)
             rest  == BulkCoalesce(Tail(update_queue), sibling_index)
             ix    == get_tree_indices(self, current_index)
             reads == IF ix.has_right_sibling
                      THEN {ix.left_index, ix.right_index}
                      ELSE {ix.left_index}
         IN  IF ~((reads \cup {ix.parent_index}) \subseteq DOMAIN tree)
             THEN [panicked |-> TRUE, exit |-> TRUE, tree |-> tree,
                   update_queue |-> rest, reads |-> reads, written |-> {}]
             ELSE [panicked     |-> FALSE,
                   exit         |-> FALSE,
                   tree         |-> [tree EXCEPT ![ix.parent_index] =
                                        IF ix.has_right_sibling
                                        THEN parent_output(
                                                 chaining_value(tree[ix.left_index]),
                                                 chaining_value(tree[ix.right_index]),
                                                 self.key_words, self.flags)
                                        ELSE tree[ix.left_index]],
                   update_queue |-> Append(rest, ix.parent_index),
                   reads        |-> reads,
                   written      |-> {ix.parent_index}]

\* The `while let Some(current_index) = update_queue.pop_front()` loop.
RECURSIVE BulkPropagate(_, _, _)
BulkPropagate(self, tree, update_queue) ==
    IF Len(update_queue) = 0
    THEN [panicked |-> FALSE, tree |-> tree]
    ELSE LET step == BulkStep(self, tree, update_queue)
         IN  IF step.exit
             THEN [panicked |-> step.panicked, tree |-> tree]
             ELSE BulkPropagate(self, step.tree, step.update_queue)

\* A bulk_insert_leaves that, like insert_leaf, panics on an index that is not
\* below actual_leaves.
bulk_insert_leaves_bounds_checked(self, leaf_indices_iter, leaf_hashes_iter) ==
    LET leaf_indices == [k \in 1 .. Len(leaf_indices_iter) |->
                            leaf_indices_iter[k] + num_leaves(self)]
    IN  IF \/ is_sorted_panics(leaf_indices)
           \/ \E k \in 1 .. Len(leaf_indices_iter) :
                 insert_leaf_out_of_bounds(self, leaf_indices_iter[k])
        THEN [ret |-> "panic", tree |-> self.tree]
        ELSE IF ~is_sorted(leaf_indices)
        THEN [ret |-> "None", tree |-> self.tree]
        ELSE LET written == BulkWriteLeaves(self.tree, leaf_indices, leaf_hashes_iter, 1)
                 done    == BulkPropagate(self, written.tree, leaf_indices)
             IN  [ret  |-> IF written.panicked \/ done.panicked THEN "panic" ELSE "Some",
                  tree |-> done.tree]

\* Returns [ret, tree]: ret is "Some" (Some(())), "None" or "panic", tree the node
\* vector the call leaves (at the panic, when it panics).
bulk_insert_leaves(self, leaf_indices_iter, leaf_hashes_iter) ==
    LET leaf_offset  == num_leaves(self)
        leaf_indices == [k \in 1 .. Len(leaf_indices_iter) |->
                            leaf_indices_iter[k] + leaf_offset]
    IN  IF is_sorted_panics(leaf_indices)
        THEN [ret |-> "panic", tree |-> self.tree]
        ELSE IF ~is_sorted(leaf_indices)
        THEN [ret |-> "None", tree |-> self.tree]
        ELSE LET written == BulkWriteLeaves(self.tree, leaf_indices, leaf_hashes_iter, 1)
             IN  IF written.panicked
                 THEN [ret |-> "panic", tree |-> written.tree]
                 ELSE LET done == BulkPropagate(self, written.tree, leaf_indices)
                      IN  [ret  |-> IF done.panicked THEN "panic" ELSE "Some",
                           tree |-> done.tree]

\* The `while !input.is_empty()` loop of process_input_to_chunks; returns the
\* outputs pushed and the chunk state it ends with.
RECURSIVE ProcessChunksLoop(_, _, _, _, _)
ProcessChunksLoop(outputs, chunk_state, input, key_words, flags) ==
    IF Len(input) = 0
    THEN [outputs |-> outputs, chunk_state |-> chunk_state]
    ELSE LET full == ChunkState_len(chunk_state) = CHUNK_LEN
             outputs1 == IF full THEN Append(outputs, ChunkState_output(chunk_state))
                         ELSE outputs
             state1   == IF full
                         THEN ChunkState_new(key_words, chunk_state.chunk_counter + 1, flags)
                         ELSE chunk_state
             want == CHUNK_LEN - ChunkState_len(state1)
             take == min(want, Len(input))
         IN  ProcessChunksLoop(outputs1,
                               ChunkState_update(state1, SubSeq(input, 1, take)),
                               SubSeq(input, take + 1, Len(input)),
                               key_words, flags)

\* A chunking that keeps the last chunk only when it is full.
process_input_to_chunks_full_only(input, key_words, flags) ==
    LET r == ProcessChunksLoop(<<>>, ChunkState_new(key_words, 0, flags), input,
                               key_words, flags)
        outputs == IF ChunkState_len(r.chunk_state) = CHUNK_LEN
                   THEN Append(r.outputs, ChunkState_output(r.chunk_state))
                   ELSE r.outputs
    IN  IF Len(outputs) = 0
        THEN <<ChunkState_output(ChunkState_new(key_words, 0, flags))>>
        ELSE outputs

process_input_to_chunks(input, key_words, flags) ==
    LET r == ProcessChunksLoop(<<>>, ChunkState_new(key_words, 0, flags), input,
                               key_words, flags)
        outputs == IF ChunkState_len(r.chunk_state) > 0
                   THEN Append(r.outputs, ChunkState_output(r.chunk_state))
                   ELSE r.outputs
    IN  IF Len(outputs) = 0
        THEN <<ChunkState_output(ChunkState_new(key_words, 0, flags))>>
        ELSE outputs

from_input(input, key_words, flags) ==
    new_from_leaves(process_input_to_chunks(input, key_words, flags), key_words, flags)

(***************************************************************************)
(* Bounds of the model                                                     *)
(***************************************************************************)
\* Largest number of chunks of an input.
MaxChunks == 5
\* Largest number of indices in a bulk call.
MaxBulk == 3

\* Lengths of an input's last chunk: a partial block, one compressed block and
\* a byte, a full chunk.
TailLens == {1, BLOCK_LEN + 1, CHUNK_LEN}

InputLens ==
    {0} \cup {CHUNK_LEN * k + r : k \in 0 .. MaxChunks - 1, r \in TailLens}

(***************************************************************************)
(* The caller's side, as the tests drive the tree                          *)
(***************************************************************************)
\* (0..len).map(|i| i as u8)
InputBytes(len) == [p \in 1 .. len |-> (p - 1) % 256]

\* (input_size + CHUNK_LEN - 1) / CHUNK_LEN, and 1 for the empty input
NumChunks(len) == IF len = 0 THEN 1 ELSE (len + CHUNK_LEN - 1) \div CHUNK_LEN

\* &input[chunk_start..chunk_end] of chunk chunk_index
ChunkBytes(bytes, chunk_index) ==
    SubSeq(bytes, chunk_index * CHUNK_LEN + 1,
           min((chunk_index + 1) * CHUNK_LEN, Len(bytes)))

\* input[i] ^ 0xFF
FlipByte(b) == 255 - b

\* The bytes with every bit of the chunks in `chunk_indices` flipped.
FlipChunks(bytes, chunk_indices) ==
    [p \in 1 .. Len(bytes) |->
        IF ((p - 1) \div CHUNK_LEN) \in chunk_indices
        THEN FlipByte(bytes[p]) ELSE bytes[p]]

\* ChunkState::new(IV, chunk_index, FLAGS), update(bytes), output()
ChunkOutputOf(chunk_index, bytes) ==
    ChunkState_output(ChunkState_update(ChunkState_new(IV, chunk_index, FLAGS), bytes))

\* A block of bytes offered for an index that has no chunk in the input.
ExtraChunk == [j \in 1 .. BLOCK_LEN |-> 255]

\* ChunkOutputs[<<len, i, f>>]: the ChunkState output of chunk i of the input of
\* length len, with the chunk's bits flipped when f.  (Tabulated once: the
\* bytes of chunk i are those of the input whatever other chunks are flipped.)
ChunkOutputs ==
    [k \in {<<len, i, f>> \in InputLens \X (0 .. MaxChunks - 1) \X BOOLEAN :
               i < NumChunks(len)} |->
        ChunkOutputOf(k[2], ChunkBytes(FlipChunks(InputBytes(k[1]),
                                                  IF k[3] THEN {k[2]} ELSE {}), k[2]))]
    @@ <<>>

\* ExtraOutputs[i]: the ChunkState output of ExtraChunk with counter i.
ExtraOutputs == [i \in 0 .. 2 * MaxChunks |-> ChunkOutputOf(i, ExtraChunk)] @@ <<>>

\* The Output a caller supplies for leaf_index: that of chunk leaf_index of the
\* current bytes with all its bits flipped; that of ExtraChunk when the input
\* has no such chunk.
ReplacementOutput(len, flipped_chunks, leaf_index) ==
    IF leaf_index < NumChunks(len)
    THEN ChunkOutputs[<<len, leaf_index, leaf_index \notin flipped_chunks>>]
    ELSE ExtraOutputs[leaf_index]

\* ReferenceHashes[<<len, F>>]: Blake3Hasher::new(), update, finalize over the
\* input of length len with the chunks in F flipped.  (Tabulated once.)
ReferenceHashes ==
    [k \in {<<len, F>> \in InputLens \X SUBSET (0 .. MaxChunks - 1) :
               F \subseteq 0 .. NumChunks(len) - 1} |->
        Blake3Hasher_finalize(
            Blake3Hasher_update(Blake3Hasher_new, FlipChunks(InputBytes(k[1]), k[2])))]
    @@ <<>>

RECURSIVE SortedSeqOf(_)
SortedSeqOf(S) ==
    IF S = {} THEN <<>>
    ELSE LET m == CHOOSE x \in S : \A y \in S : x <= y
         IN  <<m>> \o SortedSeqOf(S \ {m})

\* Strictly ascending sequences of at most MaxBulk entries of D.
AscendingSeqs(D) ==
    {SortedSeqOf(S) : S \in {T \in SUBSET D : Cardinality(T) <= MaxBulk}}

\* s with entries k and k+1 exchanged, and s with entry k repeated at k+1.
SwapAt(s, k) == [s EXCEPT ![k] = s[k + 1], ![k + 1] = s[k]]
RepeatAt(s, k) == [s EXCEPT ![k + 1] = s[k]]

\* The index sequences offered to bulk_insert_leaves of a tree with `actual`
\* leaves in `number` leaf slots: ascending ones over the chunk indices, the
\* first index past the chunks, the last leaf slot and the first index past
\* the leaf slots; and ascending ones over the chunk indices with one adjacent
\* pair exchanged or repeated.
BulkIndexSeqs(actual, number) ==
    LET valid == AscendingSeqs(0 .. actual - 1)
        places == {<<t, j>> \in valid \X (1 .. MaxBulk) : j < Len(t)}
    IN  AscendingSeqs((0 .. actual) \cup {number - 1, number})
        \cup {SwapAt(sk[1], sk[2]) : sk \in places}
        \cup {RepeatAt(sk[1], sk[2]) : sk \in places}

\* The numbers of Outputs offered with an index sequence: as many, and for an
\* ascending sequence of chunk indices also one fewer and one more.
BulkOutputCounts(actual, indices) ==
    IF /\ \A k \in 1 .. Len(indices) : indices[k] < actual
       /\ \A k \in 1 .. Len(indices) - 1 : indices[k] < indices[k + 1]
    THEN {n \in {Len(indices) - 1, Len(indices), Len(indices) + 1} : n >= 0}
    ELSE {Len(indices)}

BulkOutputs(len, flipped_chunks, number, indices, n_outputs) ==
    [k \in 1 .. n_outputs |->
        IF k <= Len(indices)
        THEN ReplacementOutput(len, flipped_chunks, indices[k])
        ELSE ExtraOutputs[number]]

\* The chunk indices whose Output a bulk call wrote: those paired with an Output.
BulkWritten(actual, indices, n_outputs) ==
    {indices[k] : k \in {j \in 1 .. min(Len(indices), n_outputs) : indices[j] < actual}}

\* A xor B on sets of chunk indices: flipping a chunk twice restores it.
FlipSet(A, B) == (A \ B) \cup (B \ A)

(***************************************************************************)
(* State                                                                   *)
(***************************************************************************)
VARIABLES
    input_len,   \* the length of the input the tree was built from
    flipped,     \* the chunks of the input whose bits are now flipped: the
                 \* current bytes are FlipChunks(InputBytes(input_len), flipped)
    merkle,      \* the BinaryMerkleTree: tree, actual_leaves, number_of_leaves,
                 \* leaf_start_index, key_words, flags
    panicked,    \* a call has panicked: the program has ended
    call,        \* the call that has just returned: its name, leaf indices,
                 \* number of Outputs and result; op = "none" between calls
    root_ret,    \* the Output the last root() returned
    frame        \* the locals of the loop that is running, where a
                 \* specification follows a call iteration by iteration;
                 \* pc = "none" where calls are taken whole

vars == <<input_len, flipped, merkle, panicked, call, root_ret, frame>>

NoCall == [op |-> "none", indices |-> <<>>, n_outputs |-> 0, ret |-> "none"]

NoFrame == [pc |-> "none"]

Init ==
    \E len \in InputLens :
        /\ input_len = len
        /\ flipped = {}
        /\ merkle = from_input(InputBytes(len), IV, FLAGS)
        /\ panicked = FALSE
        /\ call = [op |-> "from_input", indices |-> <<>>, n_outputs |-> 0,
                   ret |-> "Self"]
        /\ root_ret = PlaceholderNode(IV, FLAGS)
        /\ frame = NoFrame

\* The caller takes the result of the call that returned and goes on.
Continue ==
    /\ ~panicked
    /\ call.op # "none"
    /\ call' = NoCall
    /\ root_ret' = PlaceholderNode(IV, FLAGS)
    /\ UNCHANGED <<input_len, flipped, merkle, panicked, frame>>

Root ==
    /\ ~panicked
    /\ call.op = "none"
    /\ root_ret' = root(merkle)
    /\ call' = [op |-> "root", indices |-> <<>>, n_outputs |-> 0, ret |-> "Output"]
    /\ UNCHANGED <<input_len, flipped, merkle, panicked, frame>>

InsertLeaf ==
    /\ ~panicked
    /\ call.op = "none"
    /\ \E leaf_index \in 0 .. merkle.number_of_leaves :
         LET done == insert_leaf(merkle, leaf_index,
                                 ReplacementOutput(input_len, flipped, leaf_index))
         IN  /\ merkle' = [merkle EXCEPT !.tree = done.tree]
             /\ panicked' = done.panicked
             /\ flipped' = IF done.panicked THEN flipped
                           ELSE FlipSet(flipped, {leaf_index})
             /\ call' = [op |-> "insert_leaf", indices |-> <<leaf_index>>,
                         n_outputs |-> 1,
                         ret |-> IF done.panicked THEN "panic" ELSE "()"]
    /\ UNCHANGED <<input_len, root_ret, frame>>

BulkInsertLeaves ==
    /\ ~panicked
    /\ call.op = "none"
    /\ \E indices \in BulkIndexSeqs(merkle.actual_leaves, merkle.number_of_leaves) :
       \E n_outputs \in BulkOutputCounts(merkle.actual_leaves, indices) :
         LET done == bulk_insert_leaves(
                         merkle, indices,
                         BulkOutputs(input_len, flipped, merkle.number_of_leaves,
                                     indices, n_outputs))
         IN  /\ merkle' = [merkle EXCEPT !.tree = done.tree]
             /\ panicked' = (done.ret = "panic")
             /\ flipped' = IF done.ret = "Some"
                           THEN FlipSet(flipped,
                                        BulkWritten(merkle.actual_leaves, indices,
                                                    n_outputs))
                           ELSE flipped
             /\ call' = [op |-> "bulk_insert_leaves", indices |-> indices,
                         n_outputs |-> n_outputs, ret |-> done.ret]
    /\ UNCHANGED <<input_len, root_ret, frame>>

Next == Continue \/ Root \/ InsertLeaf \/ BulkInsertLeaves

Spec == Init /\ [][Next]_vars

(***************************************************************************)
(* What the properties speak of                                            *)
(***************************************************************************)
\* BuiltTrees[<<len, F>>]: BinaryMerkleTree::from_input over the input of
\* length len with the chunks in F flipped.  (Tabulated once.)
BuiltTrees ==
    [k \in {<<len, F>> \in InputLens \X SUBSET (0 .. MaxChunks - 1) :
               F \subseteq 0 .. NumChunks(len) - 1} |->
        from_input(FlipChunks(InputBytes(k[1]), k[2]), IV, FLAGS)]
    @@ <<>>

\* The slots on the path from a real leaf to slot 1: a leaf's slot and its
\* successive parents.
PathSlots(self) ==
    {s \in {ShiftRight(self.leaf_start_index + i, l) :
               i \in 0 .. self.actual_leaves - 1, l \in 0 .. self.number_of_leaves} :
        s >= 1}

\* The leaf Outputs the node vector now holds.
CurrentLeaves(self) ==
    [i \in 1 .. self.actual_leaves |-> self.tree[self.leaf_start_index + i - 1]]

\* insert_leaf called once for each pair of leaf_indices and leaf_outputs, in
\* order, from the k-th pair on.
RECURSIVE InsertEach(_, _, _, _)
InsertEach(self, leaf_indices, leaf_outputs, k) ==
    IF k > Len(leaf_indices)
    THEN [panicked |-> FALSE, tree |-> self.tree]
    ELSE LET done == insert_leaf(self, leaf_indices[k], leaf_outputs[k])
         IN  IF done.panicked
             THEN done
             ELSE InsertEach([self EXCEPT !.tree = done.tree],
                             leaf_indices, leaf_outputs, k + 1)

StrictlyAscending(indices) ==
    \A k \in 1 .. Len(indices) - 1 : indices[k] < indices[k + 1]

(***************************************************************************)
(* Properties                                                              *)
(***************************************************************************)
\* C1: oracle agreement.  The root output bytes of from_input(B, IV, 0).root()
\* are the output bytes of Blake3Hasher::new(), update(B), finalize, for the
\* empty input and for every chunk count and tail length.
OracleAgreement ==
    call.op = "from_input" =>
        root_output_bytes(root(merkle)) = ReferenceHashes[<<input_len, {}>>]

\* A five-chunk input with a partial last chunk has been built: the last leaf
\* is promoted through two levels.
OracleAgreementWitness ==
    /\ call.op = "from_input"
    /\ merkle.actual_leaves = 5
    /\ input_len % CHUNK_LEN # 0
    /\ merkle.tree[3] = merkle.tree[12]
    /\ root_output_bytes(root(merkle)) = ReferenceHashes[<<input_len, {}>>]

\* C2: tree invariant.  After construction and after every call that returned,
\* in any order and number, every slot on a path from a real leaf to slot 1
\* holds what new_from_leaves builds from the leaf Outputs now stored.
TreeInvariant ==
    ~panicked =>
        LET rebuilt == new_from_leaves(CurrentLeaves(merkle),
                                       merkle.key_words, merkle.flags)
        IN  \A s \in PathSlots(merkle) : merkle.tree[s] = rebuilt.tree[s]

\* A five-leaf tree after several updates, the last one a bulk update of the
\* promoted leaf and another: four chunks differ from the input it was built from.
TreeInvariantWitness ==
    /\ ~panicked
    /\ call.op = "bulk_insert_leaves"
    /\ call.ret = "Some"
    /\ call.indices = <<1, 4>>
    /\ merkle.actual_leaves = 5
    /\ Cardinality(flipped) = 4

\* C3: leaf-update equivalence.  After insert_leaf(i, Output of the replaced
\* chunk i) returns, the root output bytes are the reference hash of the bytes
\* with chunk i replaced, and root() is that of from_input over those bytes.
LeafUpdateEquivalence ==
    call.op = "insert_leaf" /\ call.ret = "()" =>
        /\ root_output_bytes(root(merkle)) = ReferenceHashes[<<input_len, flipped>>]
        /\ root(merkle) = root(BuiltTrees[<<input_len, flipped>>])

\* The last, promoted leaf of a five-leaf tree has just been replaced.
LeafUpdateEquivalenceWitness ==
    /\ call.op = "insert_leaf"
    /\ call.ret = "()"
    /\ call.indices = <<4>>
    /\ merkle.actual_leaves = 5
    /\ flipped = {4}
    /\ merkle.tree[1] # BuiltTrees[<<input_len, {}>>].tree[1]

\* C4: bulk/single equivalence.  bulk_insert_leaves given distinct chunk
\* indices in strictly ascending order, with as many Outputs, returns Some and
\* leaves every slot on a path from a real leaf to slot 1, and so the root, as
\* insert_leaf applied to the same pairs one by one leaves them; the root
\* output bytes are the reference hash of the final bytes.
BulkSingleEquivalence ==
    [][(/\ call'.op = "bulk_insert_leaves"
        /\ Len(call'.indices) > 0
        /\ call'.n_outputs = Len(call'.indices)
        /\ StrictlyAscending(call'.indices)
        /\ \A k \in 1 .. Len(call'.indices) : call'.indices[k] < merkle.actual_leaves)
       => LET one_by_one ==
                  InsertEach(merkle, call'.indices,
                             BulkOutputs(input_len, flipped, merkle.number_of_leaves,
                                         call'.indices, call'.n_outputs), 1)
          IN  /\ call'.ret = "Some"
              /\ ~one_by_one.panicked
              /\ \A s \in PathSlots(merkle) : merkle'.tree[s] = one_by_one.tree[s]
              /\ root(merkle') = root([merkle EXCEPT !.tree = one_by_one.tree])
              /\ root_output_bytes(root(merkle')) =
                     ReferenceHashes[<<input_len, flipped'>>]]_vars

\* A bulk update of three leaves of a five-leaf tree, two of them siblings and
\* one the promoted leaf, has returned Some.
BulkSingleEquivalenceWitness ==
    /\ call.op = "bulk_insert_leaves"
    /\ call.ret = "Some"
    /\ call.indices = <<2, 3, 4>>
    /\ call.n_outputs = 3
    /\ merkle.actual_leaves = 5
    /\ flipped = {2, 3, 4}

\* C5: unsorted rejection without mutation.  When some adjacent pair of the
\* indices has idx[k] >= idx[k+1], bulk_insert_leaves returns None and the
\* tree, every slot and actual_leaves, is as before the call.
UnsortedRejection ==
    [][(/\ call'.op = "bulk_insert_leaves"
        /\ \E k \in 1 .. Len(call'.indices) - 1 :
               call'.indices[k] >= call'.indices[k + 1])
       => /\ call'.ret = "None"
          /\ ~panicked'
          /\ merkle' = merkle]_vars

\* A bulk call with a repeated index has returned None on a tree that earlier
\* updates had changed.
UnsortedRejectionWitness ==
    /\ call.op = "bulk_insert_leaves"
    /\ call.ret = "None"
    /\ call.indices = <<1, 1>>
    /\ flipped # {}
    /\ ~panicked

\* C6: an empty bulk input is a successful no-op.  bulk_insert_leaves with no
\* index and no Output returns Some, does not panic, and leaves every slot of
\* the tree as it was.
EmptyBulkIsNoOp ==
    [][(/\ call'.op = "bulk_insert_leaves"
        /\ call'.indices = <<>>
        /\ call'.n_outputs = 0)
       => /\ call'.ret = "Some"
          /\ ~panicked'
          /\ merkle' = merkle]_vars

\* C7: length-mismatch rejection.  When the number of indices differs from the
\* number of Outputs, bulk_insert_leaves returns None.
LengthMismatchRejection ==
    [][(/\ call'.op = "bulk_insert_leaves"
        /\ call'.n_outputs # Len(call'.indices))
       => call'.ret = "None"]_vars

\* C8: no failure after the sort check.  For every non-empty strictly
\* ascending index sequence, whatever the index values, bulk_insert_leaves
\* returns Some: it neither panics on a slot access nor stops with only some
\* of the leaves written.
NoFailureAfterSortCheck ==
    [][(/\ call'.op = "bulk_insert_leaves"
        /\ Len(call'.indices) > 0
        /\ StrictlyAscending(call'.indices))
       => /\ call'.ret = "Some"
          /\ ~panicked']_vars

\* C9: out-of-bounds single insert.  insert_leaf with leaf_index >=
\* actual_leaves, the padding range included, panics, and no slot of the tree
\* has changed when it does.
OutOfBoundsInsertPanics ==
    [][(/\ call'.op = "insert_leaf"
        /\ call'.indices[1] >= merkle.actual_leaves)
       => /\ call'.ret = "panic"
          /\ panicked'
          /\ merkle' = merkle]_vars

\* insert_leaf with an index in the padding range of a five-leaf tree, which
\* earlier updates had changed, has panicked.
OutOfBoundsInsertPanicsWitness ==
    /\ call.op = "insert_leaf"
    /\ call.ret = "panic"
    /\ panicked
    /\ merkle.actual_leaves = 5
    /\ call.indices = <<6>>
    /\ flipped # {}

\* No Output stored in the node vector has the ROOT bit set.
StoredWithoutRoot ==
    \A s \in DOMAIN merkle.tree : BitAnd(merkle.tree[s].flags, ROOT) = 0

\* C10: root flag.  No stored Output ever has the ROOT bit set; root() returns
\* slot 1 with ROOT added to its flags and every other field the same; and
\* root() changes no slot of the tree, however often it is called.
RootFlag ==
    /\ []StoredWithoutRoot
    /\ [][call'.op = "root"
          => /\ merkle' = merkle
             /\ root_ret'.flags = merkle.tree[1].flags + ROOT
             /\ BitAnd(root_ret'.flags, ROOT) = ROOT
             /\ root_ret'.input_chaining_value = merkle.tree[1].input_chaining_value
             /\ root_ret'.block_words = merkle.tree[1].block_words
             /\ root_ret'.counter = merkle.tree[1].counter
             /\ root_ret'.block_len = merkle.tree[1].block_len
             /\ DOMAIN root_ret' = DOMAIN merkle.tree[1]]_vars

\* root() has returned on a tree of several leaves after an update: slot 1 is a
\* parent node, stored without ROOT, and the Output returned has ROOT set.
RootFlagWitness ==
    /\ call.op = "root"
    /\ merkle.actual_leaves = 3
    /\ flipped = {2}
    /\ merkle.tree[1].flags = PARENT
    /\ root_ret.flags = PARENT + ROOT

RECURSIVE IsPowerOfTwo(_)
IsPowerOfTwo(p) == p = 1 \/ (p > 1 /\ p % 2 = 0 /\ IsPowerOfTwo(p \div 2))

\* num_leaves() is the smallest power of two >= actual_leaves(),
\* leaf_start_index is num_leaves(), and the node vector has 2 * num_leaves() slots.
GeometryHolds ==
    /\ merkle.actual_leaves >= 1
    /\ IsPowerOfTwo(num_leaves(merkle))
    /\ num_leaves(merkle) >= merkle.actual_leaves
    /\ num_leaves(merkle) = 1 \/ num_leaves(merkle) \div 2 < merkle.actual_leaves
    /\ merkle.actual_leaves = 1 => num_leaves(merkle) = 1
    /\ merkle.leaf_start_index = num_leaves(merkle)
    /\ DOMAIN merkle.tree = 0 .. 2 * num_leaves(merkle) - 1

\* C11: geometry.  In every constructed tree num_leaves() is the smallest
\* power of two >= actual_leaves(), leaf_start_index = num_leaves() and the
\* node vector has exactly 2 * num_leaves() slots; and no insert_leaf,
\* bulk_insert_leaves or root call, returning or panicking, changes any of
\* the four.
Geometry ==
    /\ []GeometryHolds
    /\ [][/\ merkle'.actual_leaves = merkle.actual_leaves
          /\ merkle'.number_of_leaves = merkle.number_of_leaves
          /\ merkle'.leaf_start_index = merkle.leaf_start_index
          /\ DOMAIN merkle'.tree = DOMAIN merkle.tree]_vars

\* A bulk update has panicked on a five-leaf tree that earlier updates had
\* changed: eight leaf slots, sixteen slots in all.
GeometryWitness ==
    /\ panicked
    /\ call.op = "bulk_insert_leaves"
    /\ flipped # {}
    /\ merkle.actual_leaves = 5
    /\ merkle.number_of_leaves = 8
    /\ merkle.leaf_start_index = 8
    /\ DOMAIN merkle.tree = 0 .. 15

\* The recurrence of level populations: pop(0) = n, pop(k+1) = ceil(pop(k)/2).
RECURSIVE pop(_, _)
pop(n, k) == IF k = 0 THEN n ELSE (pop(n, k - 1) + 1) \div 2

\* level_start(k) = P >> k, by repeated halving.
RECURSIVE level_start(_, _)
level_start(P, k) == IF k = 0 THEN P ELSE level_start(P, k - 1) \div 2

\* The levels below the root of a tree with P leaf slots: level_start(k) >= 2.
LevelsBelowRoot(P) == {k \in 0 .. P : level_start(P, k) >= 2}

ChunkingByFromInput ==
    call.op = "from_input" =>
        LET L      == input_len
            n      == IF L = 0 THEN 1 ELSE (L + 1023) \div 1024
            bytes  == InputBytes(L)
            leaf(i) == merkle.tree[merkle.leaf_start_index + i]
        IN  /\ merkle.actual_leaves = n
            /\ \A i \in 0 .. n - 1 :
                   LET first == 1024 * i + 1
                       last  == min(1024 * (i + 1), L)
                   IN  /\ leaf(i) = ChunkOutputOf(i, SubSeq(bytes, first, last))
                       /\ leaf(i).counter = i
                       /\ i < n - 1 => last - first + 1 = 1024 /\ leaf(i).block_len = 64
            /\ (L > 0 /\ L % 1024 = 0) => n = L \div 1024 /\ leaf(n - 1).block_len = 64
            /\ L = 0 => n = 1 /\ leaf(0).counter = 0 /\ leaf(0).block_len = 0

\* An input of exactly three chunks has been split into three leaves, the last
\* one full.
ChunkingByFromInputWitness ==
    /\ call.op = "from_input"
    /\ input_len = 3 * CHUNK_LEN
    /\ merkle.actual_leaves = 3
    /\ merkle.tree[merkle.leaf_start_index + 2].counter = 2
    /\ merkle.tree[merkle.leaf_start_index + 2].block_len = BLOCK_LEN

\* C14: single-leaf tree.  With one leaf, actual_leaves() = 1, num_leaves() =
\* 1 and the leaf slot is the root slot 1; slot 1 holds the leaf's own Output,
\* the replacement x after insert_leaf(0, x) or bulk_insert_leaves([0], [x]);
\* root() returns it with ROOT set; and no slot ever holds a parent node.
SingleLeafTree ==
    (merkle.actual_leaves = 1 /\ ~panicked) =>
        /\ num_leaves(merkle) = 1
        /\ merkle.leaf_start_index = 1
        /\ merkle.tree[1] = ChunkOutputs[<<input_len, 0, 0 \in flipped>>]
        /\ \A s \in DOMAIN merkle.tree : BitAnd(merkle.tree[s].flags, PARENT) = 0
        /\ call.op = "root" =>
               /\ root_ret = [merkle.tree[1] EXCEPT !.flags = @ + ROOT]
               /\ BitAnd(merkle.tree[1].flags, ROOT) = 0

\* root() has returned on a one-leaf tree whose leaf, a chunk of one byte, an
\* update had replaced: the Output returned is the replacement with ROOT set.
SingleLeafTreeWitness ==
    /\ call.op = "root"
    /\ merkle.actual_leaves = 1
    /\ input_len = 1
    /\ flipped = {0}
    /\ merkle.tree[1] = ChunkOutputs[<<input_len, 0, TRUE>>]
    /\ root_ret.block_words = merkle.tree[1].block_words
    /\ root_ret.flags = CHUNK_START + CHUNK_END + ROOT

(***************************************************************************)
(* ChunkState on its own: a caller that owns one ChunkState and feeds it   *)
(* byte slices through the public update                                   *)
(***************************************************************************)
\* The most bytes the caller feeds one ChunkState in all.  (blocks_compressed
\* is a u8: it would overflow at 256 blocks, far above this.)
MaxChunkStateBytes == 1100

\* The lengths of the slices the caller passes: empty, one byte, around one
\* block, a whole chunk and a chunk and a byte.
UpdateLens == {0, 1, BLOCK_LEN - 1, BLOCK_LEN, BLOCK_LEN + 1, CHUNK_LEN,
               CHUNK_LEN + 1}

\* The slice of length n passed when the ChunkState holds `held` bytes.
UpdateBytes(held, n) == [j \in 1 .. n |-> (held + j - 1) % 256]

\* When no tree call is followed: the tree the other variables describe.
IdleTree == new_from_leaves(<<ChunkState_output(ChunkState_new(IV, 0, FLAGS))>>,
                            IV, FLAGS)

ChunkInit ==
    /\ \E chunk_counter \in 0 .. 1 :
         frame = [pc |-> "chunk",
                  chunk_state |-> ChunkState_new(IV, chunk_counter, FLAGS)]
    /\ input_len = 0
    /\ flipped = {}
    /\ merkle = IdleTree
    /\ panicked = FALSE
    /\ call = NoCall
    /\ root_ret = PlaceholderNode(IV, FLAGS)

\* chunk_state.update(slice)
ChunkUpdate ==
    /\ frame.pc = "chunk"
    /\ \E n \in UpdateLens :
         /\ ChunkState_len(frame.chunk_state) + n <= MaxChunkStateBytes
         /\ frame' = [frame EXCEPT
                        !.chunk_state =
                            ChunkState_update(
                                @, UpdateBytes(ChunkState_len(@), n))]
    /\ UNCHANGED <<input_len, flipped, merkle, panicked, call, root_ret>>

ChunkNext == ChunkUpdate

ChunkSpec == ChunkInit /\ [][ChunkNext]_vars

\* C15: after ChunkState::new and after any sequence of ChunkState::update
\* calls with slices of any lengths, BLOCK_LEN * blocks_compressed + block_len
\* is at most CHUNK_LEN, block_len is in 0 .. BLOCK_LEN and blocks_compressed
\* is in 0 .. CHUNK_LEN / BLOCK_LEN.
ChunkStateLengthInvariant ==
    frame.pc = "chunk" =>
        /\ ChunkState_len(frame.chunk_state) <= CHUNK_LEN
        /\ frame.chunk_state.block_len \in 0 .. BLOCK_LEN
        /\ frame.chunk_state.blocks_compressed \in 0 .. (CHUNK_LEN \div BLOCK_LEN)

(***************************************************************************)
(* The loops of the tree, iteration by iteration: a caller builds a tree   *)
(* with new_from_leaves and then makes one insert_leaf or one              *)
(* bulk_insert_leaves call.  frame holds the locals of the running loop,   *)
(* the slots the last iteration read and wrote, and the internal slots the *)
(* call has written so far, in order.                                      *)
(***************************************************************************)
\* Largest number of leaves of a tree followed iteration by iteration.
MaxLeaves == 9

\* The Output of leaf i of such a tree, and the one a caller replaces it
\* with: those of one-byte chunks.
StepLeaf(i) == ChunkOutputOf(i, <<i % 256>>)
StepReplacement(i) == ChunkOutputOf(i, <<FlipByte(i % 256)>>)

StepLeaves(n) == [k \in 1 .. n |-> StepLeaf(k - 1)]

\* The BinaryMerkleTree of new_from_leaves as create_tree_from_leaves is
\* entered: every slot holds the placeholder node.
StepAllocated(n) ==
    LET built == new_from_leaves(StepLeaves(n), IV, FLAGS)
    IN  [built EXCEPT !.tree = [s \in DOMAIN built.tree |->
                                   PlaceholderNode(IV, FLAGS)]]

\* The index sequences offered to bulk_insert_leaves: the non-empty strictly
\* ascending ones over the leaves and the first leaf slot past them.
StepIndexSeqs(actual, number) ==
    {SortedSeqOf(S) :
        S \in (SUBSET (0 .. min(actual, number - 1))) \ {{}}}

IdleFrame ==
    [pc                     |-> "idle",
     current_level_start    |-> 0,
     nodes_at_current_level |-> 0,
     i                      |-> 0,
     nodes_in_this_level    |-> 0,
     current_index          |-> 0,
     update_queue           |-> <<>>,
     reads                  |-> {},
     written                |-> {},
     log                    |-> <<>>]

\* The slots an iteration of the inner for loop of create_tree_from_leaves
\* reads.
BuildParentReads(current_level_start, nodes_at_current_level, i) ==
    LET left_index  == current_level_start + 2 * i
        right_index == left_index + 1
    IN  IF 2 * i + 1 >= nodes_at_current_level
        THEN {left_index}
        ELSE {left_index, right_index}

StepInit ==
    \E n \in 0 .. MaxLeaves :
        /\ merkle = StepAllocated(n)
        /\ frame = [IdleFrame EXCEPT !.pc = "create"]
        /\ call = [op |-> "new_from_leaves", indices |-> <<>>, n_outputs |-> n,
                   ret |-> "running"]
        /\ panicked = FALSE
        /\ input_len = 0
        /\ flipped = {}
        /\ root_ret = PlaceholderNode(IV, FLAGS)

\* create_tree_from_leaves up to its while loop: the leaf copy, and the
\* return of the single-leaf case.
CreateCopyLeaves ==
    /\ frame.pc = "create"
    /\ LET leaves == StepLeaves(call.n_outputs)
           copied == [s \in DOMAIN merkle.tree |->
                         IF /\ s >= merkle.leaf_start_index
                            /\ s < merkle.leaf_start_index + Len(leaves)
                         THEN leaves[s - merkle.leaf_start_index + 1]
                         ELSE merkle.tree[s]]
           leaf_slots == {merkle.leaf_start_index + k : k \in 0 .. Len(leaves) - 1}
       IN  IF merkle.actual_leaves = 1
           THEN /\ merkle' = [merkle EXCEPT
                                !.tree = [copied EXCEPT
                                            ![1] = copied[merkle.leaf_start_index]]]
                /\ frame' = [IdleFrame EXCEPT
                                !.reads = {merkle.leaf_start_index},
                                !.written = leaf_slots \cup {1}]
                /\ call' = [call EXCEPT !.ret = "Self"]
           ELSE /\ merkle' = [merkle EXCEPT !.tree = copied]
                /\ frame' = [IdleFrame EXCEPT
                                !.pc = "build",
                                !.current_level_start = merkle.leaf_start_index,
                                !.nodes_at_current_level = merkle.actual_leaves,
                                !.written = leaf_slots]
                /\ call' = call
    /\ UNCHANGED <<input_len, flipped, panicked, root_ret>>

\* One iteration of `for i in 0..nodes_in_parent_level`.
BuildIteration ==
    /\ frame.pc = "build"
    /\ frame.current_level_start > 1
    /\ frame.i < (frame.nodes_at_current_level + 1) \div 2
    /\ merkle' = [merkle EXCEPT
                    !.tree = BuildParent(merkle, @, frame.current_level_start,
                                         frame.nodes_at_current_level, frame.i)]
    /\ frame' = [frame EXCEPT
                    !.i = @ + 1,
                    !.reads = BuildParentReads(frame.current_level_start,
                                               frame.nodes_at_current_level,
                                               frame.i),
                    !.written = {frame.current_level_start \div 2 + frame.i},
                    !.log = Append(@, frame.current_level_start \div 2 + frame.i)]
    /\ UNCHANGED <<input_len, flipped, panicked, call, root_ret>>

\* The for loop is over: the while loop goes up one level.
BuildNextLevel ==
    /\ frame.pc = "build"
    /\ frame.current_level_start > 1
    /\ frame.i >= (frame.nodes_at_current_level + 1) \div 2
    /\ frame' = [frame EXCEPT
                    !.current_level_start = @ \div 2,
                    !.nodes_at_current_level = (@ + 1) \div 2,
                    !.i = 0,
                    !.reads = {},
                    !.written = {}]
    /\ UNCHANGED <<input_len, flipped, merkle, panicked, call, root_ret>>

\* `while current_level_start > 1` is over: new_from_leaves returns the tree.
BuildReturn ==
    /\ frame.pc = "build"
    /\ frame.current_level_start <= 1
    /\ frame' = IdleFrame
    /\ call' = [call EXCEPT !.ret = "Self"]
    /\ UNCHANGED <<input_len, flipped, merkle, panicked, root_ret>>

\* insert_leaf up to its while loop: the bounds check and the leaf write.
StartInsert ==
    /\ frame.pc = "idle"
    /\ call.op = "new_from_leaves"
    /\ \E leaf_index \in 0 .. merkle.actual_leaves :
         LET real_leaf_index == leaf_index + merkle.leaf_start_index
             fails == \/ insert_leaf_out_of_bounds(merkle, leaf_index)
                      \/ real_leaf_index \notin DOMAIN merkle.tree
         IN  /\ call' = [op |-> "insert_leaf", indices |-> <<leaf_index>>,
                         n_outputs |-> 1,
                         ret |-> IF fails THEN "panic" ELSE "running"]
             /\ panicked' = fails
             /\ merkle' = IF fails THEN merkle
                          ELSE [merkle EXCEPT !.tree[real_leaf_index] =
                                                  StepReplacement(leaf_index)]
             /\ frame' = IF fails THEN [IdleFrame EXCEPT !.pc = "done"]
                         ELSE [IdleFrame EXCEPT
                                 !.pc = "insert",
                                 !.nodes_in_this_level = merkle.actual_leaves,
                                 !.current_index = real_leaf_index,
                                 !.written = {real_leaf_index}]
    /\ UNCHANGED <<input_len, flipped, root_ret>>

\* One iteration of `while nodes_in_this_level > 1`.
InsertIteration ==
    /\ frame.pc = "insert"
    /\ frame.nodes_in_this_level > 1
    /\ \E step \in {InsertStep(merkle, merkle.tree, frame.current_index)} :
           /\ merkle' = [merkle EXCEPT !.tree = step.tree]
           /\ panicked' = step.panicked
           /\ call' = IF step.panicked THEN [call EXCEPT !.ret = "panic"] ELSE call
           /\ frame' = IF step.panicked
                       THEN [frame EXCEPT !.pc = "done", !.reads = step.reads,
                                          !.written = {}]
                       ELSE [frame EXCEPT
                               !.current_index = step.parent_index,
                               !.nodes_in_this_level = (@ + 1) \div 2,
                               !.reads = step.reads,
                               !.written = {step.parent_index},
                               !.log = Append(@, step.parent_index)]
    /\ UNCHANGED <<input_len, flipped, root_ret>>

\* The while loop is over: insert_leaf returns.
InsertReturn ==
    /\ frame.pc = "insert"
    /\ frame.nodes_in_this_level <= 1
    /\ frame' = [frame EXCEPT !.pc = "done", !.reads = {}, !.written = {}]
    /\ call' = [call EXCEPT !.ret = "()"]
    /\ UNCHANGED <<input_len, flipped, merkle, panicked, root_ret>>

\* bulk_insert_leaves up to its while loop: the translation of the indices,
\* the sort check, the leaf writes and the queue.
StartBulk ==
    /\ frame.pc = "idle"
    /\ call.op = "new_from_leaves"
    /\ \E indices \in StepIndexSeqs(merkle.actual_leaves, merkle.number_of_leaves) :
         LET leaf_offset  == num_leaves(merkle)
             leaf_indices == [k \in 1 .. Len(indices) |-> indices[k] + leaf_offset]
             leaf_hashes  == [k \in 1 .. Len(indices) |-> StepReplacement(indices[k])]
             leaves_done  == BulkWriteLeaves(merkle.tree, leaf_indices, leaf_hashes, 1)
             ret == IF is_sorted_panics(leaf_indices) THEN "panic"
                    ELSE IF ~is_sorted(leaf_indices) THEN "None"
                    ELSE IF leaves_done.panicked THEN "panic"
                    ELSE "running"
         IN  /\ call' = [op |-> "bulk_insert_leaves", indices |-> indices,
                         n_outputs |-> Len(indices), ret |-> ret]
             /\ panicked' = (ret = "panic")
             /\ merkle' = IF is_sorted_panics(leaf_indices) \/ ~is_sorted(leaf_indices)
                          THEN merkle
                          ELSE [merkle EXCEPT !.tree = leaves_done.tree]
             /\ frame' = IF ret = "running"
                         THEN [IdleFrame EXCEPT
                                 !.pc = "bulk",
                                 !.update_queue = leaf_indices,
                                 !.written = {leaf_indices[k] :
                                                k \in 1 .. Len(leaf_indices)}]
                         ELSE [IdleFrame EXCEPT !.pc = "done"]
    /\ UNCHANGED <<input_len, flipped, root_ret>>

\* One turn of `while let Some(current_index) = update_queue.pop_front()`: an
\* iteration, the break at the root, or the end of the queue; after the last
\* two bulk_insert_leaves returns Some(()).
BulkIteration ==
    /\ frame.pc = "bulk"
    /\ IF Len(frame.update_queue) = 0
       THEN /\ frame' = [frame EXCEPT !.pc = "done", !.reads = {}, !.written = {}]
            /\ call' = [call EXCEPT !.ret = "Some"]
            /\ UNCHANGED <<merkle, panicked>>
       ELSE \E step \in {BulkStep(merkle, merkle.tree, frame.update_queue)} :
                /\ merkle' = [merkle EXCEPT !.tree = step.tree]
                /\ panicked' = step.panicked
                /\ call' = IF step.exit
                           THEN [call EXCEPT
                                   !.ret = IF step.panicked THEN "panic" ELSE "Some"]
                           ELSE call
                /\ frame' = [frame EXCEPT
                               !.pc = IF step.exit THEN "done" ELSE "bulk",
                               !.current_index = Head(frame.update_queue),
                               !.update_queue = step.update_queue,
                               !.reads = step.reads,
                               !.written = step.written,
                               !.log = @ \o SortedSeqOf(step.written)]
    /\ UNCHANGED <<input_len, flipped, root_ret>>

StepNext ==
    \/ CreateCopyLeaves
    \/ BuildIteration
    \/ BuildNextLevel
    \/ BuildReturn
    \/ StartInsert
    \/ InsertIteration
    \/ InsertReturn
    \/ StartBulk
    \/ BulkIteration

StepSpec == StepInit /\ [][StepNext]_vars

\* The program is single-threaded and nothing cancels a call: while the
\* propagation loop of bulk_insert_leaves can take a turn it takes it.
StepFairSpec == StepSpec /\ WF_vars(BulkIteration)

(***************************************************************************)
(* What the properties of the loops speak of                               *)
(***************************************************************************)
\* floor(log2(x)) for x >= 1
RECURSIVE Log2Floor(_)
Log2Floor(x) == IF x <= 1 THEN 0 ELSE 1 + Log2Floor(x \div 2)

\* The level of slot c >= 1 of a tree with P leaf slots: 0 for the leaf slots,
\* log2(P) for slot 1.
TrueLevel(P, c) == Log2Floor(P) - Log2Floor(c)

\* The slots outside the real population of their level, and slot 0.
PaddingSlots(self) ==
    {0} \cup
    {c \in 1 .. 2 * self.number_of_leaves - 1 :
        LET k == TrueLevel(self.number_of_leaves, c)
        IN  c >= level_start(self.number_of_leaves, k) + pop(self.actual_leaves, k)}

\* The call being followed is a construction, an insert_leaf with an index
\* below actual_leaves, or a bulk_insert_leaves with strictly ascending
\* indices all below actual_leaves.
ValidBulkCall ==
    /\ call.op = "bulk_insert_leaves"
    /\ Len(call.indices) > 0
    /\ \A k \in 1 .. Len(call.indices) : call.indices[k] < merkle.actual_leaves
    /\ \A k \in 1 .. Len(call.indices) - 1 : call.indices[k] < call.indices[k + 1]

ValidInsertCall ==
    /\ call.op = "insert_leaf"
    /\ call.indices[1] < merkle.actual_leaves

\* C16: padding is never read.  During construction, during insert_leaf with
\* an index below actual_leaves and during bulk_insert_leaves with strictly
\* ascending indices all below actual_leaves, no iteration reads, to compute a
\* chaining value or to copy into another slot, a slot outside the real
\* population of its level or slot 0.
PaddingNeverRead ==
    (call.op = "new_from_leaves" \/ ValidInsertCall \/ ValidBulkCall)
        => frame.reads \cap PaddingSlots(merkle) = {}

\* A bulk update of the last of five leaves has promoted slot 12 into slot 6,
\* next to the padding slot 13.
PaddingNeverReadWitness ==
    /\ ValidBulkCall
    /\ merkle.actual_leaves = 5
    /\ frame.reads = {12}
    /\ frame.written = {6}
    /\ 13 \in PaddingSlots(merkle)
    /\ merkle.tree[6] = merkle.tree[12]

\* The slots above slot c on its way to the root: c >> 1, c >> 2, ..., 1.
RECURSIVE AncestorsOf(_)
AncestorsOf(c) ==
    IF c <= 1 THEN {}
    ELSE {get_parent_index(c)} \cup AncestorsOf(get_parent_index(c))

\* The leaf slots the followed call updates, and all their ancestors.
UpdatedLeafSlots ==
    {call.indices[k] + merkle.leaf_start_index : k \in 1 .. Len(call.indices)}

UpdatedAncestors == UNION {AncestorsOf(c) : c \in UpdatedLeafSlots}

\* The slots the propagation loop has written before its j-th write.
WrittenBefore(j) == {frame.log[m] : m \in 1 .. j - 1}

\* C17: bulk update recomputes each parent at most once.  During a
\* bulk_insert_leaves call with strictly ascending indices below
\* actual_leaves, the loop writes no slot twice, writes only ancestors of the
\* updated leaves and, when the call has returned Some(()), all of them; and
\* when it writes a slot, each child of that slot that the call updates has
\* been written already and is not written again.
EachParentOnce ==
    ValidBulkCall =>
        /\ \A j, k \in 1 .. Len(frame.log) : j # k => frame.log[j] # frame.log[k]
        /\ {frame.log[j] : j \in 1 .. Len(frame.log)} \subseteq UpdatedAncestors
        /\ call.ret = "Some" =>
               {frame.log[j] : j \in 1 .. Len(frame.log)} = UpdatedAncestors
        /\ \A j \in 1 .. Len(frame.log) :
             \A child \in {2 * frame.log[j], 2 * frame.log[j] + 1} :
                child \in UpdatedLeafSlots \cup UpdatedAncestors
                    => /\ child \in UpdatedLeafSlots \cup WrittenBefore(j)
                       /\ \A k \in j + 1 .. Len(frame.log) : frame.log[k] # child

\* Leaves 0, 1 and 4 of five were updated: the siblings 8 and 9 gave one write
\* of slot 4, slots 2 and 3 one write of slot 1.
EachParentOnceWitness ==
    /\ ValidBulkCall
    /\ call.ret = "Some"
    /\ call.indices = <<0, 1, 4>>
    /\ merkle.actual_leaves = 5
    /\ frame.log = <<4, 6, 2, 3, 1>>

\* The populated slots below the root: 2 <= c < P + n, inside the population
\* of their level.
PopulatedSlotsBelowRoot(self) ==
    {c \in 2 .. self.number_of_leaves + self.actual_leaves - 1 :
        c \notin PaddingSlots(self)}

\* C18: the level geometry helper agrees with the recurrence.  For a tree of
\* n >= 2 leaves in P leaf slots and every populated slot c with
\* 2 <= c < P + n, at its true level k = log2(P) - floor(log2(c)):
\* get_tree_indices(c) returns as left the even one of c and c xor 1, as right
\* the odd one, as parent c >> 1, and has_right_sibling exactly when
\* right < level_start(k) + pop(k); and the level its search loop finds is k.
HelperAgreesWithRecurrence ==
    merkle.actual_leaves >= 2 =>
        \A c \in PopulatedSlotsBelowRoot(merkle) :
            LET ix == get_tree_indices(merkle, c)
                k  == TrueLevel(merkle.number_of_leaves, c)
                even == IF c % 2 = 0 THEN c ELSE c - 1
            IN  /\ ix.left_index = even
                /\ ix.right_index = even + 1
                /\ ix.parent_index = c \div 2
                /\ ix.has_right_sibling =
                       (even + 1 < level_start(merkle.number_of_leaves, k)
                                       + pop(merkle.actual_leaves, k))
                /\ current_level_of(merkle, c) = k

\* insert_leaf(8, x) on nine leaves has asked the helper about slot 12, the
\* fifth and last node of level 1: no right sibling, and slot 12 was promoted
\* into slot 6.
HelperAgreesWithRecurrenceWitness ==
    /\ ValidInsertCall
    /\ call.indices = <<8>>
    /\ merkle.actual_leaves = 9
    /\ frame.current_index = 6
    /\ frame.reads = {12}
    /\ current_level_of(merkle, 12) = 1
    /\ ~get_tree_indices(merkle, 12).has_right_sibling
    /\ get_tree_indices(merkle, 12).right_index = 13

\* The propagation loop of a bulk_insert_leaves call with strictly ascending
\* indices below actual_leaves is running.
ValidBulkRunning == ValidBulkCall /\ frame.pc = "bulk"

\* Such a call has returned Some(()) after popping slot 1.
ValidBulkReturned ==
    /\ ValidBulkCall
    /\ frame.pc = "done"
    /\ call.ret = "Some"
    /\ frame.current_index = 1

\* C19: bulk update terminates with a bounded queue.  For every non-empty
\* strictly ascending sequence of indices below actual_leaves: at every step
\* the update queue holds at most as many entries as indices were supplied,
\* an iteration never lengthens it (it removes at least one entry and adds
\* one), the call ends only by popping slot 1 and returning Some(()), and the
\* running loop does come to that end.
BulkTerminatesBounded ==
    /\ [](ValidBulkCall => Len(frame.update_queue) <= Len(call.indices))
    /\ [][ValidBulkRunning /\ frame'.pc = "bulk"
            => /\ Len(frame'.update_queue) <= Len(frame.update_queue)
               /\ Len(frame'.update_queue) >= 1]_vars
    /\ [](ValidBulkCall /\ frame.pc = "done" => ValidBulkReturned)
    /\ (ValidBulkRunning ~> ValidBulkReturned)

\* Four of nine leaves were updated and the call has returned after popping
\* slot 1.
BulkTerminatesBoundedWitness ==
    /\ ValidBulkReturned
    /\ merkle.actual_leaves = 9
    /\ call.indices = <<0, 3, 4, 8>>
    /\ frame.update_queue = <<>>
    /\ Len(frame.log) = 10

\* Entries from..to of q are slots of level k of a tree with P leaf slots, in
\* strictly ascending order.
AscendingRunOfLevel(q, from, to, P, k) ==
    /\ \A j \in from .. to : q[j] >= 1 /\ TrueLevel(P, q[j]) = k
    /\ \A j \in from .. to - 1 : q[j] < q[j + 1]

\* C20: queue ordering in bulk update.  At every turn of the loop of a
\* bulk_insert_leaves call with strictly ascending indices below
\* actual_leaves, the queue is a strictly ascending run of slots of one level
\* k followed by a strictly ascending run of slots of level k + 1; when a slot
\* and its sibling are both pending the even one comes first and the odd one
\* directly after it; and when the sibling of the front slot is pending it is
\* the next entry, a slot of the same level.
QueueLevelMonotonic ==
    ValidBulkRunning =>
        LET q == frame.update_queue
            P == merkle.number_of_leaves
        IN  /\ \E m \in 0 .. Len(q) : \E k \in 0 .. Log2Floor(P) :
                  /\ AscendingRunOfLevel(q, 1, m, P, k)
                  /\ AscendingRunOfLevel(q, m + 1, Len(q), P, k + 1)
            /\ \A a, b \in 1 .. Len(q) :
                  (q[a] % 2 = 0 /\ q[b] = q[a] + 1) => b = a + 1
            /\ \A b \in 1 .. Len(q) :
                  (Len(q) >= 1 /\ q[b] = get_sibling_index(q[1]))
                      => /\ b = 2
                         /\ TrueLevel(P, q[b]) = TrueLevel(P, q[1])

\* Leaves 0, 2, 4, 5 and 8 of nine: after two iterations the queue holds the
\* leaf slots 20, 21 and 24, then the level-1 slots 8 and 9, both sibling
\* pairs adjacent.
QueueLevelMonotonicWitness ==
    /\ ValidBulkRunning
    /\ call.indices = <<0, 2, 4, 5, 8>>
    /\ frame.update_queue = <<20, 21, 24, 8, 9>>

(***************************************************************************)
(* What the properties of ChunkState speak of                              *)
(***************************************************************************)
\* The compressions that made a chaining value out of key_words, first to
\* last, each with its five arguments: compress keeps them, and
\* first_8_words(compress(...)) is the chaining value it leaves.
RECURSIVE CompressionsOf(_, _)
CompressionsOf(cv, key_words) ==
    IF cv = key_words THEN <<>>
    ELSE Append(CompressionsOf(cv[1][1], key_words), cv[1])

\* Whether the bits of flag f are set in flags.
HasFlag(flags, f) == BitAnd(flags, f) = f

\* C21: chunk domain flags over a sequence of updates.  After any sequence of
\* ChunkState::update calls of at most CHUNK_LEN bytes in all: update has
\* compressed every block but the last buffered one, also when that one is
\* full; the first compression carries CHUNK_START and no later one does; no
\* compression carries CHUNK_END; and output() has CHUNK_END, has CHUNK_START
\* exactly when blocks_compressed = 0, has counter = chunk_counter and
\* block_len = the buffered length.
ChunkDomainFlags ==
    (frame.pc = "chunk" /\ ChunkState_len(frame.chunk_state) <= CHUNK_LEN) =>
        LET cs   == frame.chunk_state
            done == CompressionsOf(cs.chaining_value, IV)
            out  == ChunkState_output(cs)
        IN  /\ Len(done) = cs.blocks_compressed
            /\ ChunkState_len(cs) > 0 =>
                   /\ cs.block_len >= 1
                   /\ cs.blocks_compressed =
                          (ChunkState_len(cs) + BLOCK_LEN - 1) \div BLOCK_LEN - 1
            /\ \A j \in 1 .. Len(done) :
                   /\ HasFlag(done[j][5], CHUNK_START) <=> j = 1
                   /\ ~HasFlag(done[j][5], CHUNK_END)
                   /\ done[j][3] = cs.chunk_counter
                   /\ done[j][4] = BLOCK_LEN
            /\ HasFlag(out.flags, CHUNK_END)
            /\ HasFlag(out.flags, CHUNK_START) <=> cs.blocks_compressed = 0
            /\ out.counter = cs.chunk_counter
            /\ out.block_len = cs.block_len
            /\ out.block_words = words_from_little_endian_bytes(cs.block)
            /\ out.input_chaining_value = cs.chaining_value

\* A whole chunk was fed to the ChunkState of chunk 1: fifteen blocks are
\* compressed, the sixteenth, full, is still buffered, and output() carries
\* CHUNK_END without CHUNK_START.
ChunkDomainFlagsWitness ==
    /\ frame.pc = "chunk"
    /\ frame.chunk_state.chunk_counter = 1
    /\ frame.chunk_state.blocks_compressed = 15
    /\ frame.chunk_state.block_len = BLOCK_LEN
    /\ Len(CompressionsOf(frame.chunk_state.chaining_value, IV)) = 15
    /\ CompressionsOf(frame.chunk_state.chaining_value, IV)[1][5] = CHUNK_START
    /\ CompressionsOf(frame.chunk_state.chaining_value, IV)[15][5] = 0
    /\ ChunkState_output(frame.chunk_state).flags = CHUNK_END
    /\ ChunkState_output(frame.chunk_state).counter = 1

(***************************************************************************)
(* The stored root                                                         *)
(***************************************************************************)
\* blake3_chaining_value[i] = u32::from_le_bytes(hash[i*4..(i+1)*4]): the words
\* whose little-endian bytes the hash holds.
words_of_hash(hash) == hash.le_bytes_of

\* node is an Output made by parent_output with these key words and flags.
IsParentOutput(node, key_words, flags) ==
    /\ node.input_chaining_value = key_words
    /\ Len(node.block_words) = 2
    /\ node.counter = 0
    /\ node.block_len = BLOCK_LEN
    /\ node.flags = BitOr(PARENT, flags)
    /\ HasFlag(node.flags, PARENT)

\* C22: the root slot is never a promoted node when there is more than one
\* leaf.  In every reachable state of a tree with actual_leaves >= 2 the level
\* below the root has exactly two nodes and slot 1 holds a parent_output
\* (PARENT set, counter 0, block_len 64), that of slots 2 and 3 unless a call
\* has panicked; for every tree the stored root has counter 0, and
\* root().chaining_value() equals the first 8 little-endian words of
\* root().root_output_bytes.
RootNeverPromoted ==
    /\ merkle.actual_leaves >= 2 =>
           /\ pop(merkle.actual_leaves, Log2Floor(merkle.number_of_leaves) - 1) = 2
           /\ IsParentOutput(merkle.tree[1], merkle.key_words, merkle.flags)
           /\ ~panicked =>
                  merkle.tree[1] = parent_output(chaining_value(merkle.tree[2]),
                                                 chaining_value(merkle.tree[3]),
                                                 merkle.key_words, merkle.flags)
    /\ merkle.tree[1].counter = 0
    /\ chaining_value(root(merkle)) = words_of_hash(root_output_bytes(root(merkle)))

\* Three leaves, the last one replaced: slot 3 is the promoted leaf slot 6,
\* whose counter is 2, and the root above it is a parent node that root()
\* returned with PARENT and ROOT.
RootNeverPromotedWitness ==
    /\ call.op = "root"
    /\ merkle.actual_leaves = 3
    /\ 2 \in flipped
    /\ merkle.tree[3] = merkle.tree[6]
    /\ merkle.tree[3].counter = 2
    /\ root_ret.flags = PARENT + ROOT
    /\ root_ret.counter = 0

(***************************************************************************)
(* The frame of the update calls                                           *)
(***************************************************************************)
\* StepBuilt[n]: the tree new_from_leaves returns for the n leaves of
\* StepLeaves, which is the tree the followed update call starts from.
\* (Tabulated once.)
StepBuilt ==
    [n \in 0 .. MaxLeaves |-> new_from_leaves(StepLeaves(n), IV, FLAGS)] @@ <<>>

\* C23: frame and walk of insert_leaf.  During and after insert_leaf(i, x)
\* with i < actual_leaves: the loop has written (P + i) >> 1, (P + i) >> 2, ...
\* in this order, each once; every slot other than leaf slot P + i and those
\* holds what it held before the call; the loop, which tests the population
\* of the level, goes on exactly while the current slot is not slot 1; and the
\* call returns with the current slot 1 and every ancestor up to slot 1
\* written.
InsertWritesItsPath ==
    (ValidInsertCall /\ frame.pc \in {"insert", "done"}) =>
        LET real_leaf_index == call.indices[1] + merkle.leaf_start_index
            before == StepBuilt[merkle.actual_leaves].tree
        IN  /\ \A j \in 1 .. Len(frame.log) :
                  frame.log[j] = ShiftRight(real_leaf_index, j)
            /\ frame.current_index = ShiftRight(real_leaf_index, Len(frame.log))
            /\ merkle.tree[real_leaf_index] = StepReplacement(call.indices[1])
            /\ \A slot \in DOMAIN merkle.tree :
                  (slot # real_leaf_index
                     /\ \A j \in 1 .. Len(frame.log) : frame.log[j] # slot)
                      => merkle.tree[slot] = before[slot]
            /\ frame.pc = "insert" =>
                  (frame.nodes_in_this_level > 1 <=> frame.current_index # 1)
            /\ frame.pc = "done" =>
                  /\ call.ret = "()"
                  /\ frame.current_index = 1
                  /\ Len(frame.log) = Log2Floor(merkle.number_of_leaves)

\* insert_leaf(8, x) on nine leaves has returned: it wrote leaf slot 24 and
\* then slots 12, 6, 3 and 1, and left leaf slot 23 and the off-path slot 2
\* as they were.
InsertWritesItsPathWitness ==
    /\ ValidInsertCall
    /\ frame.pc = "done"
    /\ call.indices = <<8>>
    /\ merkle.actual_leaves = 9
    /\ frame.log = <<12, 6, 3, 1>>
    /\ merkle.tree[24] # StepBuilt[9].tree[24]
    /\ merkle.tree[1] # StepBuilt[9].tree[1]
    /\ merkle.tree[2] = StepBuilt[9].tree[2]
    /\ merkle.tree[23] = StepBuilt[9].tree[23]

\* How many times the followed bulk call has put slot 1 into its queue: as a
\* translated leaf index, or pushed as a parent.
RootEnqueued ==
    Cardinality({k \in 1 .. Len(call.indices) :
                    call.indices[k] + merkle.leaf_start_index = 1})
    + Cardinality({j \in 1 .. Len(frame.log) : frame.log[j] = 1})

\* Slot 1 holds what a construction from the tree's current leaves puts there.
RootIsFinal ==
    merkle.tree[1] = new_from_leaves(CurrentLeaves(merkle),
                                     merkle.key_words, merkle.flags).tree[1]

\* C24: no pending work is dropped at the root.  In bulk_insert_leaves with a
\* non-empty strictly ascending sequence of indices below actual_leaves:
\* when slot 1 is at the front of the queue it is the only entry, it was
\* enqueued exactly once and it already holds its final value; and when the
\* loop has popped it and broken out, the queue is empty and slot 1 is as it
\* was.
RootPoppedLast ==
    /\ (ValidBulkRunning /\ Len(frame.update_queue) > 0
                         /\ Head(frame.update_queue) = 1)
           => /\ frame.update_queue = <<1>>
              /\ RootEnqueued = 1
              /\ RootIsFinal
    /\ ValidBulkRunning =>
           \A j \in 2 .. Len(frame.update_queue) : frame.update_queue[j] # 1
    /\ (ValidBulkCall /\ frame.pc = "done")
           => /\ frame.current_index = 1
              /\ frame.update_queue = <<>>
              /\ RootEnqueued = 1
              /\ RootIsFinal

\* All nine leaves were updated: the loop came to slot 1 through the sibling
\* pair 2 and 3, popped it with nothing left in the queue and returned.
RootPoppedLastWitness ==
    /\ ValidBulkReturned
    /\ merkle.actual_leaves = 9
    /\ Len(call.indices) = 9
    /\ frame.update_queue = <<>>
    /\ frame.log[Len(frame.log)] = 1
    /\ frame.log[Len(frame.log) - 1] = 3
    /\ RootEnqueued = 1
    /\ merkle.tree[1] # StepBuilt[9].tree[1]

(***************************************************************************)
(* Indices past the leaves                                                 *)
(***************************************************************************)
\* The entries of an index sequence that are below actual, in their order,
\* and the Outputs paired with them.
EntriesBelow(indices, actual) ==
    SortedSeqOf({k \in 1 .. Len(indices) : indices[k] < actual})

\* The last call was bulk_insert_leaves with strictly ascending indices inside
\* the leaf slots, one at least not below actual_leaves, and as many Outputs.
PaddingBulkCall(c, self) ==
    /\ c.op = "bulk_insert_leaves"
    /\ c.n_outputs = Len(c.indices)
    /\ \A k \in 1 .. Len(c.indices) - 1 : c.indices[k] < c.indices[k + 1]
    /\ \A k \in 1 .. Len(c.indices) : c.indices[k] < self.number_of_leaves
    /\ \E k \in 1 .. Len(c.indices) : c.indices[k] >= self.actual_leaves

\* C25: bulk_insert_leaves does not check indices against actual_leaves.  A
\* strictly ascending sequence with an index i, actual_leaves <= i <
\* num_leaves, is accepted with Some(()), while insert_leaf panics for such an
\* index; the Output supplied for i is written into leaf slot P + i; and every
\* populated slot, the root included, ends as after the same call with only
\* the entries whose index is below actual_leaves (as before the call when
\* there is none).
PaddingIndexAccepted ==
    /\ [][PaddingBulkCall(call', merkle) =>
            LET indices == call'.indices
                outputs == BulkOutputs(input_len, flipped, merkle.number_of_leaves,
                                       indices, call'.n_outputs)
                below   == EntriesBelow(indices, merkle.actual_leaves)
                expected ==
                    IF Len(below) = 0 THEN merkle.tree
                    ELSE bulk_insert_leaves(
                             merkle,
                             [j \in 1 .. Len(below) |-> indices[below[j]]],
                             [j \in 1 .. Len(below) |-> outputs[below[j]]]).tree
            IN  /\ call'.ret = "Some"
                /\ ~panicked'
                /\ \A k \in 1 .. Len(indices) :
                      indices[k] >= merkle.actual_leaves =>
                          merkle'.tree[merkle.leaf_start_index + indices[k]]
                              = outputs[k]
                /\ \A slot \in DOMAIN merkle.tree :
                      slot \notin PaddingSlots(merkle) =>
                          merkle'.tree[slot] = expected[slot]]_vars
    /\ [][(call'.op = "insert_leaf"
             /\ call'.indices[1] >= merkle.actual_leaves)
            => call'.ret = "panic" /\ merkle'.tree = merkle.tree]_vars

\* Leaf 4 of five and the padding indices 5 and 7 were given: the call
\* returned Some(()), the padding leaf slots 13 and 15 hold the Outputs
\* supplied for them, the padding slot 7 was written from padding slot 14, and
\* slot 6 is the promoted new leaf 12.
PaddingIndexAcceptedWitness ==
    /\ call.op = "bulk_insert_leaves"
    /\ call.indices = <<4, 5, 7>>
    /\ call.ret = "Some"
    /\ merkle.actual_leaves = 5
    /\ merkle.tree[13] = ExtraOutputs[5]
    /\ merkle.tree[15] = ExtraOutputs[7]
    /\ merkle.tree[7] = merkle.tree[14]
    /\ merkle.tree[6] = merkle.tree[12]
    /\ 4 \in flipped

====
